---- MODULE Spec2Model ----
(***************************************************************************)
(* Model of the embedding cache and retrieval engine of monica-rag:        *)
(*   storage/database.py   MonicaRAGStorage  (one sqlite table)            *)
(*   models/rag.py         MonicaRAG         (mirror, initialize, update,  *)
(*                                            query)                       *)
(*   utils/text_processing.py  create_contact_text                         *)
(*   api/client.py         MonicaAPIClient   (request error handling)      *)
(*                                                                         *)
(* Representation.                                                         *)
(*  - A Python dict is a sequence of <<key, value>> pairs with distinct    *)
(*    keys, in insertion order (dicts iterate in insertion order).         *)
(*  - A numpy array is [dtype, data]; data is a sequence of numbers. The   *)
(*    numbers of the model are small integers (the cosine is invariant     *)
(*    under scaling, so [0.9, 0.1] is written <<9, 1>>).                   *)
(*  - bytes are sequences of 0..255, little endian as on the build hosts.  *)
(*  - A JSON text is a sequence of tokens.                                 *)
(*  - A text is a sequence of lines, a line a sequence of words.           *)
(***************************************************************************)
EXTENDS Integers, Sequences, FiniteSets, TLC

\* ------------------------------------------------------------------ bounds
\* Longest contact list the source returns in one get_contacts() call.
MaxContacts == 2
\* Largest top_k a caller asks for (the smallest asked for is -1).
MaxTopK == 2
\* CURRENT_TIMESTAMP runs from 0 to MaxClock.
MaxClock == 1

\* ------------------------------------------------------------ Python dicts
DictKeys(d) == {d[i][1] : i \in DOMAIN d}

DictHas(d, k) == \E i \in DOMAIN d : d[i][1] = k

DictGet(d, k) == d[CHOOSE i \in DOMAIN d : d[i][1] = k][2]

\* d[k] = v: an existing key keeps its position, a new key goes last.
DictSet(d, k, v) ==
    IF DictHas(d, k)
    THEN [i \in DOMAIN d |-> IF d[i][1] = k THEN <<k, v>> ELSE d[i]]
    ELSE Append(d, <<k, v>>)

\* dict equality compares the mappings, not the order.
DictEq(a, b) == {a[i] : i \in DOMAIN a} = {b[i] : i \in DOMAIN b}

\* ------------------------------------------------- numpy arrays <-> bytes
\* IEEE-754 single precision, little endian, of the numbers of the model.
F32Bytes(x) ==
    CASE x = 0  -> <<0, 0, 0, 0>>
      [] x = 1  -> <<0, 0, 128, 63>>
      [] x = 2  -> <<0, 0, 0, 64>>
      [] x = 3  -> <<0, 0, 64, 64>>
      [] x = 9  -> <<0, 0, 16, 65>>
      [] x = -1 -> <<0, 0, 128, 191>>
      [] x = -2 -> <<0, 0, 0, 192>>

F32Dom == {-2, -1, 0, 1, 2, 3, 9}

\* IEEE-754 double precision, little endian; the doubles of the model are
\* those whose two halves both read back as single precision numbers of
\* F32Dom (2.0 is 00 00 00 00 00 00 00 40: the singles 0.0 and 2.0).
F64Bytes(x) ==
    CASE x = 0  -> <<0, 0, 0, 0, 0, 0, 0, 0>>
      [] x = 2  -> <<0, 0, 0, 0, 0, 0, 0, 64>>
      [] x = -2 -> <<0, 0, 0, 0, 0, 0, 0, 192>>

F64Dom == {-2, 0, 2}

RECURSIVE Flatten(_)
Flatten(ss) == IF ss = <<>> THEN <<>> ELSE Head(ss) \o Flatten(Tail(ss))

\* ndarray.tobytes(): the raw buffer of the array, in the array's own dtype.
tobytesMutant(arr) ==
    Flatten([i \in DOMAIN arr.data |-> F64Bytes(arr.data[i])])

tobytes(arr) ==
    Flatten([i \in DOMAIN arr.data |->
                IF arr.dtype = "float32" THEN F32Bytes(arr.data[i])
                                         ELSE F64Bytes(arr.data[i])])

F32Value(b) == CHOOSE x \in F32Dom : F32Bytes(x) = b

\* np.frombuffer(b, dtype=np.float32).copy(): every 4 bytes are one single.
frombuffer(b) ==
    [dtype |-> "float32",
     data  |-> [i \in 1..(Len(b) \div 4) |->
                   F32Value(SubSeq(b, 4 * i - 3, 4 * i))]]

\* ------------------------------------------------------------------- JSON
\* Values of a record: a string, null (None) or an integer.
JStr(s) == [t |-> "str", s |-> s]
JNull == [t |-> "null", s |-> ""]
JInt(s) == [t |-> "int", s |-> s]

Tok(k, s) == [tok |-> k, s |-> s]

\* json.dumps of one key: JSON keys are strings, an int key is written as
\* its decimal text.
DumpKey(k) == Tok("string", k.s)

DumpValue(v) ==
    CASE v.t = "str"  -> Tok("string", v.s)
      [] v.t = "null" -> Tok("null", "")
      [] v.t = "int"  -> Tok("number", v.s)

RECURSIVE DumpMembers(_)
DumpMembers(d) ==
    IF d = <<>> THEN <<>>
    ELSE <<DumpKey(d[1][1]), Tok(":", ""), DumpValue(d[1][2])>>
         \o (IF Len(d) > 1 THEN <<Tok(",", "")>> ELSE <<>>)
         \o DumpMembers(Tail(d))

\* json.dumps(contact_data)
json_dumps(d) == <<Tok("{", "")>> \o DumpMembers(d) \o <<Tok("}", "")>>

LoadValue(tk) ==
    CASE tk.tok = "string" -> JStr(tk.s)
      [] tk.tok = "null"   -> JNull
      [] tk.tok = "number" -> JInt(tk.s)

\* The members of an object text, read from token i on; a repeated key keeps
\* its first position and takes the last value, as dict construction does.
RECURSIVE LoadMembers(_, _, _)
LoadMembers(txt, i, acc) ==
    IF txt[i].tok = "}" THEN acc
    ELSE LET j == IF txt[i].tok = "," THEN i + 1 ELSE i
         IN LoadMembers(txt, j + 3,
                        DictSet(acc, JStr(txt[j].s), LoadValue(txt[j + 2])))

\* json.loads(contact_data)
json_loads(txt) == LoadMembers(txt, 2, <<>>)

\* --------------------------------------------------------- storage layer
\* The rows of table embeddings: contact_id INTEGER PRIMARY KEY, embedding
\* BLOB, contact_data TEXT, last_updated TIMESTAMP. The table is a set of
\* rows; sqlite reads it in rowid order, and the rowid is contact_id.
Row(id, blob, txt, ts) ==
    [contact_id |-> id, embedding |-> blob, contact_data |-> txt,
     last_updated |-> ts]

\* INSERT OR REPLACE: the row in conflict on the primary key is deleted, then
\* the new row is inserted.
InsertOrReplaceMutant(t, row) == t \cup {row}

InsertOrIgnore(t, row) ==
    IF \E r \in t : r.contact_id = row.contact_id THEN t ELSE t \cup {row}

InsertOrReplace(t, row) ==
    {r \in t : r.contact_id # row.contact_id} \cup {row}

\* MonicaRAGStorage.save_embedding at time now.
save_embedding(t, now, contact_id, embedding, contact_data) ==
    InsertOrReplace(t,
        Row(contact_id, tobytes(embedding), json_dumps(contact_data), now))

TableIds(t) == {r.contact_id : r \in t}

\* The rows a SELECT yields, in rowid order.
RECURSIVE Cursor(_)
Cursor(t) ==
    IF t = {} THEN <<>>
    ELSE LET m == CHOOSE r \in t : \A q \in t : r.contact_id <= q.contact_id
         IN <<m>> \o Cursor(t \ {m})

RECURSIVE CollectRows(_, _)
CollectRows(rows, acc) ==
    IF rows = <<>> THEN acc
    ELSE CollectRows(Tail(rows),
             DictSet(acc, rows[1].contact_id,
                     <<frombuffer(rows[1].embedding),
                       json_loads(rows[1].contact_data)>>))

\* MonicaRAGStorage.get_all_embeddings: {contact_id: (array, dict)}.
get_all_embeddings(t) == CollectRows(Cursor(t), <<>>)

\* MonicaRAGStorage.get_last_updated: MAX(last_updated), None (-1) if empty.
get_last_updated(t) ==
    IF t = {} THEN -1
    ELSE CHOOSE m \in {r.last_updated : r \in t} :
             \A r \in t : r.last_updated <= m

\* -------------------------------------------------------- text projection
\* str(v) inside an f-string: None prints as the word None.
Fmt(v) == IF v.t = "null" THEN "None" ELSE v.s

\* Truth value of a record value: None, "" and 0 are false.
Truthy(v) == ~(v.t = "null" \/ v.s = "" \/ (v.t = "int" /\ v.s = "0"))

\* contact.get(field, default)
Get(contact, field, default) ==
    IF DictHas(contact, JStr(field)) THEN DictGet(contact, JStr(field))
    ELSE default

\* f"{a} {b}".strip(): the words that are not empty (values of the model
\* hold no blanks).
StripJoin(a, b) == SelectSeq(<<a, b>>, LAMBDA w : w # "")

LabelLine(contact, field, label) ==
    LET value == Get(contact, field, JNull)
    IN IF Truthy(value) THEN <<<<label, Fmt(value)>>>> ELSE <<>>

\* utils.text_processing.create_contact_text: the lines of the text.
create_contact_text(contact) ==
    LET name == StripJoin(Fmt(Get(contact, "first_name", JStr(""))),
                          Fmt(Get(contact, "last_name", JStr(""))))
    IN (IF name # <<>> THEN <<<<"Name:">> \o name>> ELSE <<>>)
       \o LabelLine(contact, "job", "Job:")
       \o LabelLine(contact, "company", "Company:")
       \o LabelLine(contact, "email", "Email:")
       \o LabelLine(contact, "phone", "Phone:")
       \o LabelLine(contact, "notes", "Notes:")

\* ------------------------------------------------------- the environment
\* Ids the source hands out.
Ids == {1, 2}

Field(k, v) == <<JStr(k), v>>

\* Detail views the source returns (response.json()['data']).
Alice ==
    <<Field("first_name", JStr("Alice")), Field("last_name", JStr("Smith")),
      Field("job", JStr("Engineer")), Field("company", JStr("Acme"))>>

Bob ==
    <<Field("first_name", JStr("Bob")), Field("last_name", JStr("Lee")),
      Field("company", JStr("Acme"))>>

Blank == <<Field("first_name", JStr("")), Field("company", JNull)>>

\* A view with its id, a null first name and a last name.
Numbered ==
    <<Field("id", JInt("7")), Field("first_name", JNull),
      Field("last_name", JStr("Lee"))>>

Details == {Alice, Bob}

\* Query strings; a query is embedded as it is, one line of one word (the
\* empty string is the empty text, like the projection of a blank record).
QueryText(w) == IF w = "" THEN <<>> ELSE <<<<w>>>>
Queries == {QueryText("tech"), QueryText("acme"), QueryText("")}

Vec(data) == [dtype |-> "float32", data |-> data]

\* The projection of every detail view of the model, computed once.
ContactText ==
    [view \in {Alice, Bob, Blank, Numbered} |-> create_contact_text(view)]

AliceText == create_contact_text(Alice)
BobText == create_contact_text(Bob)

\* The embedding function is an opaque, deterministic collaborator
\* (SentenceTransformer.encode, float32 output); these are stub models.
\* "stub-a" is the example of the specification; "stub-b" embeds the empty
\* text and the empty query as the zero vector and two contacts alike;
\* "stub-c" is a model of another dimension, with the empty text at zero and
\* every unnamed text where Bob's is.
Encode(model, text) ==
    IF model = "stub-a"
    THEN CASE text = AliceText                  -> Vec(<<1, 0>>)
           [] text = BobText                    -> Vec(<<0, 1>>)
           [] text = <<>>                       -> Vec(<<1, 1>>)
           [] text = QueryText("tech")          -> Vec(<<9, 1>>)
           [] text = QueryText("acme")          -> Vec(<<1, 1>>)
           [] OTHER                             -> Vec(<<0, 1>>)
    ELSE IF model = "stub-b"
    THEN CASE text = AliceText                  -> Vec(<<1, 1>>)
           [] text = BobText                    -> Vec(<<1, 1>>)
           [] text = <<>>                       -> Vec(<<0, 0>>)
           [] text = QueryText("tech")          -> Vec(<<1, 0>>)
           [] text = QueryText("acme")          -> Vec(<<-1, 1>>)
           [] OTHER                             -> Vec(<<0, 0>>)
    ELSE CASE text = AliceText                  -> Vec(<<1, 0, 0>>)
           [] text = BobText                    -> Vec(<<0, 1, 0>>)
           [] text = <<>>                       -> Vec(<<0, 0, 0>>)
           [] text = QueryText("tech")          -> Vec(<<9, 1, 0>>)
           [] text = QueryText("acme")          -> Vec(<<1, 1, 0>>)
           [] OTHER                             -> Vec(<<0, 1, 0>>)

\* The model the engine is constructed with when run against the source, and
\* the models it is constructed with when queries are studied.
EngineModels == {"stub-a"}
QueryModels == {"stub-a", "stub-b"}

\* What can fail in one call: nothing, the storage read of the existence
\* check, get_contacts, or the i-th record's detail fetch, encoding or save
\* (a call makes at most one of these fail).
NoFault == [stage |-> "none", at |-> 0]
Faults(n) ==
    {NoFault, [stage |-> "get_contacts", at |-> 0]}
    \cup [stage : {"get_contact_details", "encode", "save_embedding"},
          at : 1..n]

\* The exception each failing stage raises: api/client.py turns every
\* request failure into ConnectionError; sqlite3 raises its own errors.
Raised(stage) ==
    CASE stage \in {"get_contacts", "get_contact_details"} -> "ConnectionError"
      [] stage = "encode"         -> "RuntimeError"
      [] stage = "save_embedding" -> "sqlite3.Error"
      [] stage = "get_all_embeddings" -> "sqlite3.Error"
      [] OTHER                    -> "none"

Call(fn, id) == [fn |-> fn, id |-> id]

\* ------------------------------------------------------------- api client
\* The exception classes of the request path and their direct base classes:
\* those of requests.exceptions, and ssl.SSLError, the class client.py
\* imports under the name SSLError.
Bases(class) ==
    CASE class = "requests.exceptions.SSLError" ->
             {"requests.exceptions.ConnectionError"}
      [] class = "requests.exceptions.ConnectTimeout" ->
             {"requests.exceptions.ConnectionError",
              "requests.exceptions.Timeout"}
      [] class = "requests.exceptions.ReadTimeout" ->
             {"requests.exceptions.Timeout"}
      [] class \in {"requests.exceptions.ConnectionError",
                    "requests.exceptions.Timeout",
                    "requests.exceptions.HTTPError",
                    "requests.exceptions.TooManyRedirects"} ->
             {"requests.exceptions.RequestException"}
      [] class = "requests.exceptions.RequestException" -> {"OSError"}
      [] class = "ssl.SSLCertVerificationError" -> {"ssl.SSLError", "ValueError"}
      [] class = "ssl.SSLError" -> {"OSError"}
      [] class \in {"OSError", "ValueError"} -> {"Exception"}
      [] OTHER -> {}

\* `except target`: the class raised is target or derives from it.
RECURSIVE IsSubclass(_, _)
IsSubclass(class, target) ==
    class = target \/ \E base \in Bases(class) : IsSubclass(base, target)

\* What session.request does with one request: it answers with a response of
\* some status, or raises. A network failure raises a class of
\* requests.exceptions; a TLS failure is raised by requests as its own
\* SSLError (urllib3 and requests wrap the error of the ssl module), and the
\* bare classes of the ssl module stand for an error passed on unwrapped.
NoOutcome == [kind |-> "none", status |-> 0, exc |-> "none"]

Statuses == {200, 201, 400, 401, 403, 404, 429, 500, 502, 503}

Outcomes ==
    [kind : {"response"}, status : Statuses, exc : {"none"}]
    \cup [kind : {"network"}, status : {0},
          exc : {"requests.exceptions.ConnectionError",
                 "requests.exceptions.ConnectTimeout",
                 "requests.exceptions.ReadTimeout",
                 "requests.exceptions.TooManyRedirects"}]
    \cup [kind : {"tls"}, status : {0},
          exc : {"requests.exceptions.SSLError", "ssl.SSLError",
                 "ssl.SSLCertVerificationError"}]

\* response.raise_for_status(): HTTPError for a status in 400..599.
raise_for_status(status) ==
    IF 400 <= status /\ status < 600 THEN "requests.exceptions.HTTPError"
    ELSE "none"

\* MonicaAPIClient._make_request: the exception that reaches the caller and
\* its message, or none and the decoded body.
make_request(outcome) ==
    LET raised == IF outcome.kind = "response"
                  THEN raise_for_status(outcome.status) ELSE outcome.exc
    IN IF raised = "none"
       THEN [err |-> "none", message |-> "none", ret |-> "json"]
       ELSE IF IsSubclass(raised, "ssl.SSLError")
       THEN [err |-> "ConnectionError",
             message |-> "SSL verification failed", ret |-> "none"]
       ELSE IF IsSubclass(raised, "requests.exceptions.RequestException")
       THEN [err |-> "ConnectionError",
             message |-> "API request failed", ret |-> "none"]
       ELSE [err |-> raised, message |-> "none", ret |-> "none"]

\* ------------------------------------------------------------------ state
VARIABLES
    table,         \* the rows of table embeddings in the sqlite file
    clock,         \* CURRENT_TIMESTAMP
    model_name,    \* the model of self.encoder
    embeddings,    \* self.embeddings: dict id -> array
    contact_data,  \* self.contact_data: dict id -> record
    last           \* the last call: its inputs, its outcome, the adapter
                   \* calls it made and the ids stored when it began

vars == <<table, clock, model_name, embeddings, contact_data, last>>

NoCall ==
    [op |-> "none", ret |-> "none", err |-> "none", swallowed |-> "none",
     readFault |-> FALSE, calls |-> <<>>, contacts |-> <<>>,
     details |-> <<>>, fault |-> NoFault, query |-> <<>>, top_k |-> 0,
     results |-> <<>>, id |-> 0, embedding |-> Vec(<<>>), hadIds |-> {},
     request |-> <<>>, outcome |-> NoOutcome, message |-> "none"]

\* ------------------------------------------------------- retrieval engine
\* `with X as conn:` enters X through the context manager protocol, which a
\* sqlite3 connection has and a str has not (TypeError).
SupportsContextManager(type) == type = "sqlite3.Connection"

\* MonicaRAG._has_embeddings: `with self.storage.db_path as conn`, where
\* db_path is the str given to MonicaRAGStorage.__init__; every exception is
\* logged and answered with False. readFault: the SELECT COUNT(*) fails.
has_embeddings(t, readFault) ==
    IF ~SupportsContextManager("str")
    THEN [ret |-> FALSE, swallowed |-> "TypeError"]
    ELSE IF readFault
    THEN [ret |-> FALSE, swallowed |-> "sqlite3.Error"]
    ELSE [ret |-> Cardinality(t) > 0, swallowed |-> "none"]

\* The running state of one call: mirror, table, adapter calls, exception.
Run(emb, cd, t, calls, err) ==
    [embeddings |-> emb, contact_data |-> cd, table |-> t, calls |-> calls,
     err |-> err]

\* One pass of the loop of update_embeddings, for the i-th contact.
UpdateOneStoreOnly(st, model, now, id, details, fault, i) ==
    LET fetched == Append(st.calls, Call("get_contact_details", id))
        failing == IF fault.at = i THEN fault.stage ELSE "none"
        embedding == Encode(model, ContactText[details])
    IN IF failing # "none"
       THEN Run(st.embeddings, st.contact_data, st.table, fetched,
                Raised(failing))
       ELSE Run(st.embeddings, st.contact_data,
                save_embedding(st.table, now, id, embedding, details),
                fetched, "none")

\* The pass with the record taken into the mirror as soon as it is fetched,
\* before its text is encoded.
UpdateOneRecordFirst(st, model, now, id, details, fault, i) ==
    LET fetched == Append(st.calls, Call("get_contact_details", id))
        failing == IF fault.at = i THEN fault.stage ELSE "none"
        embedding == Encode(model, ContactText[details])
        emb == DictSet(st.embeddings, id, embedding)
        cd == DictSet(st.contact_data, id, details)
    IN CASE failing = "get_contact_details" ->
                Run(st.embeddings, st.contact_data, st.table, fetched,
                    Raised(failing))
         [] failing = "encode" ->
                Run(st.embeddings, cd, st.table, fetched, Raised(failing))
         [] failing = "save_embedding" ->
                Run(emb, cd, st.table, fetched, Raised(failing))
         [] OTHER ->
                Run(emb, cd, save_embedding(st.table, now, id, embedding,
                                            details),
                    fetched, "none")

UpdateOne(st, model, now, id, details, fault, i) ==
    LET fetched == Append(st.calls, Call("get_contact_details", id))
        failing == IF fault.at = i THEN fault.stage ELSE "none"
        embedding == Encode(model, ContactText[details])
        emb == DictSet(st.embeddings, id, embedding)
        cd == DictSet(st.contact_data, id, details)
    IN CASE failing = "get_contact_details" ->
                Run(st.embeddings, st.contact_data, st.table, fetched,
                    Raised(failing))
         [] failing = "encode" ->
                Run(st.embeddings, st.contact_data, st.table, fetched,
                    Raised(failing))
         [] failing = "save_embedding" ->
                Run(emb, cd, st.table, fetched, Raised(failing))
         [] OTHER ->
                Run(emb, cd, save_embedding(st.table, now, id, embedding,
                                            details),
                    fetched, "none")

\* The loop with a failing record skipped instead of ending the call.
RECURSIVE UpdateLoopSkipping(_, _, _, _, _, _, _)
UpdateLoopSkipping(st, model, now, contacts, details, fault, i) ==
    IF i > Len(contacts) THEN st
    ELSE UpdateLoopSkipping(
             [UpdateOne([st EXCEPT !.err = "none"], model, now, contacts[i],
                        details[i], fault, i)
                 EXCEPT !.err = IF @ = "none" THEN st.err ELSE @],
             model, now, contacts, details, fault, i + 1)

RECURSIVE UpdateLoop(_, _, _, _, _, _, _)
UpdateLoop(st, model, now, contacts, details, fault, i) ==
    IF i > Len(contacts) \/ st.err # "none" THEN st
    ELSE UpdateLoop(UpdateOne(st, model, now, contacts[i], details[i],
                              fault, i),
                    model, now, contacts, details, fault, i + 1)

\* MonicaRAG.update_embeddings: contacts is the list get_contacts returns
\* (each contact by its id), details[i] the detail view fetched for the i-th.
update_embeddingsReconciling(st, model, now, contacts, details, fault) ==
    LET asked == [st EXCEPT !.calls = Append(@, Call("get_contacts", 0))]
        listed == {contacts[i] : i \in DOMAIN contacts}
    IN IF fault.stage = "get_contacts"
       THEN [asked EXCEPT !.err = Raised(fault.stage)]
       ELSE UpdateLoop([asked EXCEPT
                           !.table = {r \in @ : r.contact_id \in listed}],
                       model, now, contacts, details, fault, 1)

update_embeddings(st, model, now, contacts, details, fault) ==
    LET asked == [st EXCEPT !.calls = Append(@, Call("get_contacts", 0))]
    IN IF fault.stage = "get_contacts"
       THEN [asked EXCEPT !.err = Raised(fault.stage)]
       ELSE UpdateLoop(asked, model, now, contacts, details, fault, 1)

RECURSIVE LoadItems(_, _, _)
LoadItems(st, stored, i) ==
    IF i > Len(stored) THEN st
    ELSE LoadItems([st EXCEPT
                      !.embeddings = DictSet(@, stored[i][1], stored[i][2][1]),
                      !.contact_data = DictSet(@, stored[i][1], stored[i][2][2])],
                   stored, i + 1)

\* MonicaRAG._load_from_storage
load_from_storage(st, fault) ==
    IF fault.stage = "get_all_embeddings"
    THEN [st EXCEPT !.err = Raised(fault.stage)]
    ELSE LoadItems(st, get_all_embeddings(st.table), 1)

\* MonicaRAG.initialize: the run and the value returned (none if it raised).
initialize(st, model, now, readFault, contacts, details, fault) ==
    LET has == has_embeddings(st.table, readFault)
        run == IF has.ret THEN load_from_storage(st, fault)
               ELSE update_embeddings(st, model, now, contacts, details, fault)
    IN [run |-> run,
        swallowed |-> has.swallowed,
        ret |-> IF run.err # "none" THEN "none"
                ELSE IF has.ret THEN "True" ELSE "False"]

\* ------------------------------------------------------------------ query
\* A float result: a number in thousandths, or NaN.
NaN == [nan |-> TRUE, v |-> 0]
Num(v) == [nan |-> FALSE, v |-> v]

RECURSIVE Dot(_, _)
Dot(a, b) ==
    IF a = <<>> THEN 0 ELSE a[1] * b[1] + Dot(Tail(a), Tail(b))

Abs(x) == IF x < 0 THEN -x ELSE x

\* The largest s in lo..hi with s - 1/2 <= 1000 * d / sqrt(m), by bisection.
RECURSIVE RoundUpTo(_, _, _, _)
RoundUpTo(d, m, lo, hi) ==
    IF lo = hi THEN lo
    ELSE LET s == (lo + hi + 1) \div 2
         IN IF (2 * s - 1) * (2 * s - 1) * m <= 4000000 * d * d
            THEN RoundUpTo(d, m, s, hi)
            ELSE RoundUpTo(d, m, lo, s - 1)

\* d / sqrt(m) for d >= 0, rounded to the nearest thousandth (Cauchy-Schwarz
\* bounds it by 1); the precision of the float is modelled by this rounding.
Thousandths(d, m) == RoundUpTo(d, m, 0, 1000)

\* np.dot(q, e) / (np.linalg.norm(q) * np.linalg.norm(e)): a zero norm makes
\* it 0.0 / 0.0, which numpy evaluates to nan (with a warning, no exception).
Cosine(q, e) ==
    LET d == Dot(q.data, e.data)
        m == Dot(q.data, q.data) * Dot(e.data, e.data)
    IN IF m = 0 THEN NaN
       ELSE Num((IF d < 0 THEN -1 ELSE 1) * Thousandths(Abs(d), m))

\* a < b on floats: false whenever one side is nan.
Less(a, b) == ~a.nan /\ ~b.nan /\ a.v < b.v

\* a >= b on floats: false whenever one side is nan.
GreaterEq(a, b) == ~a.nan /\ ~b.nan /\ a.v >= b.v

Reverse(s) == [i \in DOMAIN s |-> s[Len(s) + 1 - i]]

\* list.sort of CPython on fewer than 64 items (listobject.c): the leading
\* run is counted and reversed if strictly descending, then the rest is
\* inserted by binary insertion; the only comparison is key(a) < key(b).
\* Items are <<contact_id, similarity>>, the key is the similarity.
RECURSIVE RunEnd(_, _, _)
RunEnd(s, i, descending) ==
    IF i > Len(s) THEN Len(s)
    ELSE IF Less(s[i][2], s[i - 1][2]) = descending
    THEN RunEnd(s, i + 1, descending)
    ELSE i - 1

\* count_run: the length of the run at the head and whether it descends.
count_run(s) ==
    IF Len(s) < 2 THEN [n |-> Len(s), descending |-> FALSE]
    ELSE LET descending == Less(s[2][2], s[1][2])
         IN [n |-> RunEnd(s, 3, descending), descending |-> descending]

RECURSIVE BinarySearch(_, _, _, _)
BinarySearch(s, pivot, l, r) ==
    IF l >= r THEN l
    ELSE LET p == l + (r - l) \div 2
         IN IF Less(pivot[2], s[p][2]) THEN BinarySearch(s, pivot, l, p)
            ELSE BinarySearch(s, pivot, p + 1, r)

\* s with the item at position start moved to position l <= start.
MoveTo(s, start, l) ==
    [i \in DOMAIN s |->
        IF i < l \/ i > start THEN s[i]
        ELSE IF i = l THEN s[start] ELSE s[i - 1]]

RECURSIVE binarysort(_, _)
binarysort(s, start) ==
    IF start > Len(s) THEN s
    ELSE binarysort(MoveTo(s, start, BinarySearch(s, s[start], 1, start)),
                    start + 1)

ListSort(s) ==
    LET run == count_run(s)
        head == SubSeq(s, 1, run.n)
        prepared == (IF run.descending THEN Reverse(head) ELSE head)
                    \o SubSeq(s, run.n + 1, Len(s))
    IN IF Len(s) < 2 THEN s ELSE binarysort(prepared, run.n + 1)

\* sorted(items, key=lambda x: x[1], reverse=True): reverse, sort, reverse.
SortedReverse(items) == Reverse(ListSort(Reverse(items)))

\* items[:k] as Python slices: a negative k counts from the end.
Slice(items, k) ==
    LET n == Len(items)
        stop == IF k < 0 THEN (IF n + k < 0 THEN 0 ELSE n + k)
                ELSE IF k > n THEN n ELSE k
    IN SubSeq(items, 1, stop)

\* The similarities dict of query, as a list of items in mirror order.
Similarities(emb, q) ==
    [i \in DOMAIN emb |-> <<emb[i][1], Cosine(q, emb[i][2])>>]

\* query with the scores computed in one matrix product over the stacked
\* mirror vectors: np.stack raises ValueError on an empty list.
queryStacked(emb, cd, model, text, top_k) ==
    LET q == Encode(model, text)
        top_results == Slice(SortedReverse(Similarities(emb, q)), top_k)
    IN IF emb = <<>> \/ \E i \in DOMAIN emb : Len(emb[i][2].data) # Len(q.data)
       THEN [err |-> "ValueError", results |-> <<>>]
       ELSE [err |-> "none",
             results |-> [i \in DOMAIN top_results |->
                            [contact |-> DictGet(cd, top_results[i][1]),
                             similarity |-> top_results[i][2]]]]

\* MonicaRAG.query: the results, [contact, similarity] each, or the
\* exception: np.dot raises ValueError on arrays of different lengths, and
\* self.contact_data[contact_id] raises KeyError on a missing id.
query(emb, cd, model, text, top_k) ==
    LET q == Encode(model, text)
        top_results == Slice(SortedReverse(Similarities(emb, q)), top_k)
    IN IF \E i \in DOMAIN emb : Len(emb[i][2].data) # Len(q.data)
       THEN [err |-> "ValueError", results |-> <<>>]
       ELSE IF \E i \in DOMAIN top_results : ~DictHas(cd, top_results[i][1])
       THEN [err |-> "KeyError", results |-> <<>>]
       ELSE [err |-> "none",
             results |-> [i \in DOMAIN top_results |->
                            [contact |-> DictGet(cd, top_results[i][1]),
                             similarity |-> top_results[i][2]]]]

\* ---------------------------------------------------------------- actions
\* A call is made when no call is outstanding; `last` holds its inputs and
\* outcome until the caller takes them (Return).
Idle == last.op = "none"

Lists(ids, n) == UNION {[1..k -> ids] : k \in 0..n}

ContactLists == Lists(Ids, MaxContacts)

\* MonicaRAG(api_client, model, db_path) on a database file that does not
\* exist yet: setup_database creates the empty table.
Start(models) ==
    /\ table = {}
    /\ clock = 0
    /\ model_name \in models
    /\ embeddings = <<>>
    /\ contact_data = <<>>
    /\ last = NoCall

Init == Start(EngineModels)

\* The caller takes the outcome of the call.
Return ==
    /\ ~Idle
    /\ last' = NoCall
    /\ UNCHANGED <<table, clock, model_name, embeddings, contact_data>>

\* A second of wall clock time passes.
Tick ==
    /\ Idle
    /\ clock < MaxClock
    /\ clock' = clock + 1
    /\ UNCHANGED <<table, model_name, embeddings, contact_data, last>>

\* MonicaRAG.__init__ in a new process on the same database file: the table
\* is kept (CREATE TABLE IF NOT EXISTS), the mirror starts empty.
ConstructWith(models) ==
    /\ Idle
    /\ \E model \in models :
        /\ model_name' = model
        /\ embeddings' = <<>>
        /\ contact_data' = <<>>
        /\ last' = [NoCall EXCEPT !.op = "__init__", !.hadIds = TableIds(table)]
        /\ UNCHANGED <<table, clock>>

Construct == ConstructWith(EngineModels)

\* rag.initialize(), the source answering with a list among `lists` and
\* detail views among `views`.
InitializeCall(lists, views, faulty) ==
    /\ Idle
    /\ \E readFault \in {FALSE, faulty}, contacts \in lists :
       \E details \in [1..Len(contacts) -> views],
          fault \in IF faulty THEN Faults(Len(contacts)) ELSE {NoFault} :
        LET out == initialize(Run(embeddings, contact_data, table, <<>>, "none"),
                              model_name, clock, readFault, contacts, details,
                              fault)
        IN /\ embeddings' = out.run.embeddings
           /\ contact_data' = out.run.contact_data
           /\ table' = out.run.table
           /\ last' = [NoCall EXCEPT !.op = "initialize", !.ret = out.ret,
                          !.err = out.run.err, !.swallowed = out.swallowed,
                          !.readFault = readFault, !.calls = out.run.calls,
                          !.contacts = contacts, !.details = details,
                          !.fault = fault, !.hadIds = TableIds(table)]
           /\ UNCHANGED <<clock, model_name>>

\* rag.update_embeddings()
UpdateEmbeddingsCall(lists, views, faulty) ==
    /\ Idle
    /\ \E contacts \in lists :
       \E details \in [1..Len(contacts) -> views],
          fault \in IF faulty THEN Faults(Len(contacts)) ELSE {NoFault} :
        LET out == update_embeddings(
                       Run(embeddings, contact_data, table, <<>>, "none"),
                       model_name, clock, contacts, details, fault)
        IN /\ embeddings' = out.embeddings
           /\ contact_data' = out.contact_data
           /\ table' = out.table
           /\ last' = [NoCall EXCEPT !.op = "update_embeddings",
                          !.err = out.err, !.calls = out.calls,
                          !.contacts = contacts, !.details = details,
                          !.fault = fault, !.hadIds = TableIds(table)]
           /\ UNCHANGED <<clock, model_name>>

\* rag.query(text, top_k)
QueryWith(texts, counts) ==
    /\ Idle
    /\ \E text \in texts, top_k \in counts :
        LET out == query(embeddings, contact_data, model_name, text, top_k)
        IN /\ last' = [NoCall EXCEPT !.op = "query", !.err = out.err,
                          !.query = text, !.top_k = top_k,
                          !.results = out.results,
                          !.hadIds = TableIds(table)]
           /\ UNCHANGED <<table, clock, model_name, embeddings, contact_data>>

Query == QueryWith(Queries, -1..MaxTopK)

\* ------------------------------------------- the engine against the source
Initialize == InitializeCall(ContactLists, Details, TRUE)

UpdateEmbeddings == UpdateEmbeddingsCall(ContactLists, Details, TRUE)

Next == Construct \/ Initialize \/ UpdateEmbeddings \/ Query \/ Return

Spec == Init /\ [][Next]_vars

\* ------------------------------------------------ the store on its own
\* Vectors handed to the store: float32 arrays, as the embedding function
\* returns them, of several dimensions.
StoreVectors ==
    {Vec(<<2, 0>>), Vec(<<0, 2>>), Vec(<<-2, 2, 0>>), Vec(<<>>)}

\* Records handed to the store: what response.json() can hold.
StoreRecords == {Alice, Blank, Numbered}

\* storage.save_embedding(contact_id, embedding, contact_data)
SaveEmbedding ==
    /\ Idle
    /\ \E contact_id \in Ids, embedding \in StoreVectors,
          contact \in StoreRecords :
        /\ table' = save_embedding(table, clock, contact_id, embedding, contact)
        /\ last' = [NoCall EXCEPT !.op = "save_embedding", !.id = contact_id,
                       !.embedding = embedding, !.details = <<contact>>,
                       !.hadIds = TableIds(table)]
        /\ UNCHANGED <<clock, model_name, embeddings, contact_data>>

\* storage.get_all_embeddings()
GetAllEmbeddings ==
    /\ Idle
    /\ last' = [NoCall EXCEPT !.op = "get_all_embeddings",
                   !.results = get_all_embeddings(table),
                   !.hadIds = TableIds(table)]
    /\ UNCHANGED <<table, clock, model_name, embeddings, contact_data>>

StoreNext == SaveEmbedding \/ GetAllEmbeddings \/ Tick \/ Return

StoreSpec == Init /\ [][StoreNext]_vars

\* ------------------------------------------------- the engine under query
\* The mirror is built one contact at a time from a source of three ids whose
\* records include the blank one, under either stub model; no call fails.
QueryIds == {1, 2, 3}
QueryViews == {Alice, Bob, Blank}

QueryInit == Start(QueryModels)

QueryUpdate == UpdateEmbeddingsCall(Lists(QueryIds, 1), QueryViews, FALSE)

QueryNext == QueryUpdate \/ Query \/ Return

QuerySpec == QueryInit /\ [][QueryNext]_vars

\* ------------------------------------- engines of several models, one store
\* Successive processes on one database file, each constructing its engine
\* with the model its configuration names (MODEL_NAME, or the model_name
\* argument); the models differ in dimension. No call fails.
DimModels == {"stub-a", "stub-c"}

DimInit == Start(DimModels)

DimConstruct == ConstructWith(DimModels)

DimInitialize == InitializeCall(Lists(Ids, 1), Details, FALSE)

DimUpdate == UpdateEmbeddingsCall(Lists(Ids, 1), Details, FALSE)

DimNext == DimConstruct \/ DimInitialize \/ DimUpdate \/ Return

DimSpec == DimInit /\ [][DimNext]_vars

\* ------------------------------------------- the engine under tied scores
\* An engine of model "stub-c" is built once from a source of seven records,
\* among them records that score alike and blank ones, and is then queried
\* for the default count and for the whole mirror.
TieList == <<1, 2, 3, 4, 5, 6, 7>>
TieViews == {Alice, Bob, Numbered, Blank}

\* def query(self, query, top_k: int = 3)
DefaultTopK == 3

TieInit == Start({"stub-c"})

TieBuild ==
    /\ embeddings = <<>>
    /\ UpdateEmbeddingsCall({TieList}, TieViews, FALSE)

TieQuery == QueryWith({QueryText("tech")}, {DefaultTopK, Len(TieList)})

TieNext == TieBuild \/ TieQuery \/ Return

TieSpec == TieInit /\ [][TieNext]_vars

\* ------------------------------------------------ the projection on its own
\* Records handed to create_contact_text: every attribute the projection
\* reads is absent, null, the empty string or a word.
ProjFields ==
    <<"first_name", "last_name", "job", "company", "email", "phone", "notes">>

ProjWords ==
    <<"Alice", "Smith", "Engineer", "Acme", "a@acme.io", "555", "Friend">>

ProjShapes == {"absent", "null", "empty", "word"}

RECURSIVE MakeRecord(_, _)
MakeRecord(shape, i) ==
    IF i > Len(ProjFields) THEN <<>>
    ELSE (CASE shape[i] = "absent" -> <<>>
            [] shape[i] = "null"   -> <<Field(ProjFields[i], JNull)>>
            [] shape[i] = "empty"  -> <<Field(ProjFields[i], JStr(""))>>
            [] shape[i] = "word"   -> <<Field(ProjFields[i],
                                             JStr(ProjWords[i]))>>)
         \o MakeRecord(shape, i + 1)

\* create_contact_text(contact)
CreateContactText ==
    /\ Idle
    /\ \E shape \in [DOMAIN ProjFields -> ProjShapes] :
        LET contact == MakeRecord(shape, 1)
        IN last' = [NoCall EXCEPT !.op = "create_contact_text",
                       !.details = <<contact>>,
                       !.results = create_contact_text(contact)]
    /\ UNCHANGED <<table, clock, model_name, embeddings, contact_data>>

TextNext == CreateContactText \/ Return

TextSpec == Init /\ [][TextNext]_vars

\* --------------------------------------------------- the client on its own
\* A request of the client, built with verify_ssl on or off, for an endpoint.
Request(endpoint, verify_ssl) ==
    /\ Idle
    /\ \E outcome \in Outcomes :
        LET out == make_request(outcome)
        IN last' = [NoCall EXCEPT !.op = "_make_request",
                       !.request = <<"GET", endpoint, verify_ssl>>,
                       !.outcome = outcome, !.err = out.err,
                       !.message = out.message, !.ret = out.ret]
    /\ UNCHANGED <<table, clock, model_name, embeddings, contact_data>>

\* client.get_contacts()
GetContacts == \E verify_ssl \in BOOLEAN : Request(<<"contacts">>, verify_ssl)

\* client.get_contact_details(contact_id)
GetContactDetails ==
    \E verify_ssl \in BOOLEAN, contact_id \in Ids :
        Request(<<"contacts", contact_id>>, verify_ssl)

\* client.get_conversations(contact_id)
GetConversations ==
    \E verify_ssl \in BOOLEAN, contact_id \in Ids :
        Request(<<"conversations", contact_id>>, verify_ssl)

ClientNext == GetContacts \/ GetContactDetails \/ GetConversations \/ Return

ClientSpec == Init /\ [][ClientNext]_vars

\* ----------------------------------------------------------------- claims
\* C1 (as stated): an initialize() that returns, begun with no stored entry,
\* has run the build (get_contacts is its first adapter call) and returned
\* false; begun with at least one stored entry it has returned true, made no
\* adapter call, and the mirror holds every stored entry as decoded.
C1_InitializeBranchSelection ==
    (last.op = "initialize" /\ last.err = "none") =>
        IF last.hadIds = {}
        THEN /\ last.ret = "False"
             /\ last.calls # <<>>
             /\ last.calls[1] = Call("get_contacts", 0)
        ELSE /\ last.ret = "True"
             /\ last.calls = <<>>
             /\ \A id \in TableIds(table) :
                    /\ DictHas(embeddings, id)
                    /\ DictHas(contact_data, id)
                    /\ <<DictGet(embeddings, id), DictGet(contact_data, id)>>
                         = DictGet(get_all_embeddings(table), id)

\* C2: a save_embedding call leaves exactly one row per stored id; the row of
\* the id written decodes to the vector and record just written and carries
\* the time of the write; the rows of the other ids are the rows from before.
C2_UpsertUniqueness ==
    [][(Idle /\ last'.op = "save_embedding") =>
          LET written == {r \in table' : r.contact_id = last'.id}
          IN /\ \A id \in TableIds(table') :
                    Cardinality({r \in table' : r.contact_id = id}) = 1
             /\ \A r \in written :
                    /\ frombuffer(r.embedding) = last'.embedding
                    /\ DictEq(json_loads(r.contact_data), last'.details[1])
                    /\ r.last_updated = clock
             /\ written # {}
             /\ {r \in table' : r.contact_id # last'.id}
                  = {r \in table : r.contact_id # last'.id}]_vars

\* C2's case: an id stored before is written again at a later second, beside
\* a row of another id.
C2_Witness ==
    /\ last.op = "save_embedding"
    /\ last.id \in last.hadIds
    /\ Cardinality(TableIds(table)) = 2
    /\ \E r \in table : r.contact_id = last.id /\ r.last_updated = 1
    /\ \E r \in table : r.contact_id # last.id /\ r.last_updated = 0

\* C3: after save_embedding(id, vector, record), get_all_embeddings() holds
\* for that id a vector of the same dimension and the same element values,
\* and a record equal to the one written.
C3_StoreRoundTrip ==
    (last.op = "save_embedding") =>
        LET all == get_all_embeddings(table)
        IN /\ DictHas(all, last.id)
           /\ Len(DictGet(all, last.id)[1].data) = Len(last.embedding.data)
           /\ DictGet(all, last.id)[1].data = last.embedding.data
           /\ DictEq(DictGet(all, last.id)[2], last.details[1])

\* C3's case: a three-dimensional vector with a negative element and a
\* record holding null and a number have been written.
C3_Witness ==
    /\ last.op = "save_embedding"
    /\ last.embedding = Vec(<<-2, 2, 0>>)
    /\ last.details[1] = Numbered
    /\ last.id \in TableIds(table)

\* A vector of norm zero.
IsZero(arr) == \A i \in DOMAIN arr.data : arr.data[i] = 0

\* C4 (as stated, for the requested counts k >= 0): query(text, k) on a
\* mirror of N vectors returns at most min(k, N) results, each with a score
\* >= the score of the one after it.
C4_QueryOrderingAndSize ==
    (last.op = "query" /\ last.err = "none" /\ last.top_k >= 0) =>
        /\ Len(last.results) <= (IF last.top_k < Len(embeddings)
                                 THEN last.top_k ELSE Len(embeddings))
        /\ \A i \in 1..(Len(last.results) - 1) :
               GreaterEq(last.results[i].similarity,
                         last.results[i + 1].similarity)

\* C5 (as stated): query never fails on a zero norm, no result carries NaN,
\* and when the query vector has norm zero every score reported is 0, as is
\* the score of every entry when all mirror vectors have norm zero.
C5_ZeroMagnitudeScoresZero ==
    (last.op = "query") =>
        /\ last.err = "none"
        /\ \A i \in DOMAIN last.results :
               /\ ~last.results[i].similarity.nan
               /\ (IsZero(Encode(model_name, last.query))
                   \/ \A j \in DOMAIN embeddings : IsZero(embeddings[j][2]))
                     => last.results[i].similarity = Num(0)

LastOcc(contacts, id, n) ==
    CHOOSE j \in 1..n :
        contacts[j] = id /\ \A k \in (j + 1)..n : contacts[k] # id

\* The entry the call makes of a detail view: its vector and the view.
EntryOf(view) == <<Encode(model_name, ContactText[view]), view>>

\* The row of an id as get_all_embeddings decodes it.
Decoded(t, id) ==
    LET r == CHOOSE r \in t : r.contact_id = id
    IN <<frombuffer(r.embedding), json_loads(r.contact_data)>>

MirrorEntry(id) == <<DictGet(embeddings, id), DictGet(contact_data, id)>>

\* C7: after update_embeddings() completes without error, for every id of
\* the list the store and both mirror mappings hold the entry made of the
\* detail view fetched at the last occurrence of the id.
C7_RebuildPostcondition ==
    (last.op = "update_embeddings" /\ last.err = "none") =>
        \A i \in DOMAIN last.contacts :
            LET id == last.contacts[i]
                want == EntryOf(last.details[
                            LastOcc(last.contacts, id, Len(last.contacts))])
                stored == get_all_embeddings(table)
            IN /\ DictHas(embeddings, id) /\ DictHas(contact_data, id)
               /\ MirrorEntry(id) = want
               /\ DictHas(stored, id)
               /\ DictGet(stored, id)[1] = want[1]
               /\ DictEq(DictGet(stored, id)[2], want[2])

\* C7's case: the list names one id twice, with two different detail views.
C7_Witness ==
    /\ last.op = "update_embeddings"
    /\ last.err = "none"
    /\ last.contacts = <<1, 1>>
    /\ last.details[1] # last.details[2]
    /\ last.hadIds = {1, 2}

Listed(contacts) == {contacts[i] : i \in DOMAIN contacts}

\* C8: no step removes a stored id, and a call of update_embeddings (alone or
\* from initialize) leaves the row of every id absent from the fetched list
\* as it was.
C8_StaleEntriesPersist ==
    [][/\ TableIds(table) \subseteq TableIds(table')
       /\ (Idle /\ last'.op \in {"update_embeddings", "initialize"}) =>
              \A r \in table :
                  r.contact_id \notin Listed(last'.contacts) => r \in table']_vars

\* C8's case: a rebuild completed on a list that lacks an id stored before,
\* and that id is still stored.
C8_Witness ==
    /\ last.op = "update_embeddings"
    /\ last.err = "none"
    /\ last.contacts # <<>>
    /\ \E id \in last.hadIds :
           id \notin Listed(last.contacts) /\ id \in TableIds(table)

RECURSIVE DetailCalls(_, _)
DetailCalls(contacts, n) ==
    IF n = 0 THEN <<>>
    ELSE Append(DetailCalls(contacts, n - 1),
                Call("get_contact_details", contacts[n]))

\* C9: when the detail fetch, the encoding or the save of the i-th record
\* fails, the call raises that failure; the adapter was asked for the list
\* once and for the details of records 1..i once each, no more; every id
\* among records 1..i-1 holds, in the store, the entry of its last occurrence
\* before i, and in the mirror that entry too (or, when the save of record i
\* failed and record i has the same id, the entry of record i, which the
\* mirror takes before the save); the ids that occur only after i keep their
\* rows and their mirror entries as they were.
C9_MidRunFailure ==
    [][(/\ Idle
        /\ last'.op \in {"update_embeddings", "initialize"}
        /\ last'.fault.at >= 1) =>
          LET i == last'.fault.at
              contacts == last'.contacts
          IN /\ last'.err = Raised(last'.fault.stage)
             /\ last'.ret = "none"
             /\ last'.calls = <<Call("get_contacts", 0)>>
                                \o DetailCalls(contacts, i)
             /\ \A j \in 1..(i - 1) :
                    LET id == contacts[j]
                        want == EntryOf(last'.details[
                                    LastOcc(contacts, id, i - 1)])
                    IN /\ id \in TableIds(table')
                       /\ Decoded(table', id)[1] = want[1]
                       /\ DictEq(Decoded(table', id)[2], want[2])
                       /\ DictHas(embeddings', id)
                       /\ DictHas(contact_data', id)
                       /\ <<DictGet(embeddings', id),
                            DictGet(contact_data', id)>>
                            = IF last'.fault.stage = "save_embedding"
                                 /\ contacts[i] = id
                              THEN EntryOf(last'.details[i])
                              ELSE want
             /\ \A j \in (i + 1)..Len(contacts) :
                    LET id == contacts[j]
                    IN id \notin {contacts[k] : k \in 1..i} =>
                          /\ {r \in table' : r.contact_id = id}
                               = {r \in table : r.contact_id = id}
                          /\ DictHas(embeddings', id) = DictHas(embeddings, id)
                          /\ DictHas(embeddings, id) =>
                                DictGet(embeddings', id)
                                  = DictGet(embeddings, id)
                          /\ DictHas(contact_data', id)
                               = DictHas(contact_data, id)]_vars

\* C9's case: the save of the second of two records failed after the first
\* was written.
C9_Witness ==
    /\ last.op = "update_embeddings"
    /\ last.fault = [stage |-> "save_embedding", at |-> 2]
    /\ last.contacts = <<1, 2>>
    /\ last.hadIds = {}
    /\ TableIds(table) = {1}
    /\ DictKeys(embeddings) = {1, 2}

\* C10 (as stated): the only failure initialize() swallows is a storage read
\* failure of the existence check, upon which it rebuilds (and returns false
\* if the rebuild succeeds); any other failure is raised.
C10_OnlyReadFailureSwallowed ==
    (last.op = "initialize") =>
        /\ last.swallowed # "none" =>
              last.readFault /\ last.swallowed = "sqlite3.Error"
        /\ last.readFault =>
              /\ last.calls # <<>>
              /\ last.err = "none" => last.ret = "False"
        /\ last.fault.stage # "none" => last.err = Raised(last.fault.stage)

\* C11: query on an engine whose mirror is empty returns the empty sequence
\* and raises nothing, whatever the query text and the count asked for.
C11_EmptyMirrorQuery ==
    (last.op = "query" /\ embeddings = <<>>) =>
        last.err = "none" /\ last.results = <<>>

\* C11's case: an empty mirror has been queried for a positive count with a
\* text whose vector has norm zero.
C11_Witness ==
    /\ last.op = "query"
    /\ embeddings = <<>>
    /\ last.top_k > 0
    /\ IsZero(Encode(model_name, last.query))

\* C12 (as stated): for a count k >= 0, query returns exactly min(k, N)
\* results without raising; the results are distinct mirror entries, each
\* the record of an id with the cosine of that id's vector against the query
\* vector, and every score returned is >= the score of every entry left out.
C12_TopKSelection ==
    (last.op = "query" /\ last.top_k >= 0) =>
        LET q == Encode(model_name, last.query)
            n == Len(last.results)
        IN /\ last.err = "none"
           /\ n = (IF last.top_k < Len(embeddings)
                   THEN last.top_k ELSE Len(embeddings))
           /\ \E sel \in [1..n -> DOMAIN embeddings] :
                 /\ \A i, j \in 1..n : sel[i] = sel[j] => i = j
                 /\ \A i \in 1..n :
                        /\ last.results[i].contact
                             = DictGet(contact_data, embeddings[sel[i]][1])
                        /\ last.results[i].similarity
                             = Cosine(q, embeddings[sel[i]][2])
                 /\ \A i \in 1..n :
                        \A j \in DOMAIN embeddings \ {sel[m] : m \in 1..n} :
                            GreaterEq(last.results[i].similarity,
                                      Cosine(q, embeddings[j][2]))

\* C13 (as stated): all vectors in the store have one dimension.
C13_DimensionUniformity ==
    \A r1, r2 \in table :
        Len(frombuffer(r1.embedding).data) = Len(frombuffer(r2.embedding).data)

\* An attribute that is present and neither null nor empty.
Given(contact, field) ==
    /\ DictHas(contact, JStr(field))
    /\ DictGet(contact, JStr(field)).t # "null"
    /\ DictGet(contact, JStr(field)).s # ""

Labelled(contact, field, label) ==
    IF Given(contact, field)
    THEN <<<<label, DictGet(contact, JStr(field)).s>>>> ELSE <<>>

\* The text the claim describes: the name line made of the given name parts,
\* then one labelled line per given attribute, in the fixed order.
Projected(contact) ==
    LET name == (IF Given(contact, "first_name")
                 THEN <<DictGet(contact, JStr("first_name")).s>> ELSE <<>>)
                \o (IF Given(contact, "last_name")
                    THEN <<DictGet(contact, JStr("last_name")).s>> ELSE <<>>)
    IN (IF name # <<>> THEN <<<<"Name:">> \o name>> ELSE <<>>)
       \o Labelled(contact, "job", "Job:")
       \o Labelled(contact, "company", "Company:")
       \o Labelled(contact, "email", "Email:")
       \o Labelled(contact, "phone", "Phone:")
       \o Labelled(contact, "notes", "Notes:")

\* C14 (as stated): create_contact_text emits, in the order name, job,
\* company, email, phone, notes, one labelled line per attribute that is
\* present and neither null nor empty, and nothing for any other attribute:
\* no line and no placeholder word.
C14_ProjectionOmission ==
    (last.op = "create_contact_text") =>
        last.results = Projected(last.details[1])

\* C15 (as stated): a request that fails by a network failure, a status of
\* 400..599 or a TLS failure reaches the caller as ConnectionError; a TLS
\* failure carries the TLS message, any other failure the generic message.
C15_ErrorNormalization ==
    (last.op = "_make_request"
       /\ (last.outcome.kind \in {"network", "tls"}
           \/ raise_for_status(last.outcome.status) # "none")) =>
        /\ last.err = "ConnectionError"
        /\ last.message = IF last.outcome.kind = "tls"
                          THEN "SSL verification failed"
                          ELSE "API request failed"

\* C16 (as stated): two results with equal scores and different records come
\* in mirror order: the mirror holds an entry with the record and score of
\* the earlier result before an entry with the record and score of the later.
C16_StableTies ==
    (last.op = "query" /\ last.err = "none") =>
        LET q == Encode(model_name, last.query)
            Holds(p, result) ==
                /\ DictGet(contact_data, embeddings[p][1]) = result.contact
                /\ Cosine(q, embeddings[p][2]) = result.similarity
        IN \A i, j \in DOMAIN last.results :
              (/\ i < j
               /\ ~last.results[i].similarity.nan
               /\ last.results[i].similarity = last.results[j].similarity
               /\ last.results[i].contact # last.results[j].contact) =>
                  \E a, b \in DOMAIN embeddings :
                      /\ a < b
                      /\ Holds(a, last.results[i])
                      /\ Holds(b, last.results[j])

\* C17 (as stated): every id of the mirror has a row in the store that decodes
\* to the mirror's vector and record of that id.
C17_MirrorAgreesWithStore ==
    \A p \in DOMAIN embeddings :
        LET id == embeddings[p][1]
        IN /\ id \in TableIds(table)
           /\ Decoded(table, id)[1] = embeddings[p][2]
           /\ DictHas(contact_data, id)
           /\ DictEq(Decoded(table, id)[2], DictGet(contact_data, id))

\* C18: the two mirror mappings have the same ids, in the same order, in
\* every state, and no query fails looking up the record of a scored id.
C18_MirrorKeySets ==
    /\ DictKeys(embeddings) = DictKeys(contact_data)
    /\ [p \in DOMAIN embeddings |-> embeddings[p][1]]
         = [p \in DOMAIN contact_data |-> contact_data[p][1]]
    /\ last.op = "query" => last.err # "KeyError"

\* C18's case: a query returned every entry of a mirror that an aborted
\* rebuild left with an id the store lacks.
C18_Witness ==
    /\ last.op = "query"
    /\ last.err = "none"
    /\ Len(last.results) = Len(embeddings)
    /\ Len(embeddings) > Cardinality(TableIds(table))

====
